---- MODULE Spec2Model ----
(***************************************************************************)
(* Leadflow backend: the document store (src/database.py), the lead        *)
(* advancement handler and the realtime connection manager (src/main.py).  *)
(* Documents are records; a field a document lacks is absent from its      *)
(* DOMAIN.  Every scalar value (ids, step names, statuses) is a string.    *)
(***************************************************************************)
EXTENDS Integers, Sequences, FiniteSets, TLC

\* ---------------------------------------------------------------- bounds
\* Wall-clock readings handed out before the handlers that write stop.
MaxClock == 3
\* Longest observer list kept under one project key.
MaxConn == 2
\* Leads the demo seeding creates (range(35) in the source).
NSeed == 1
\* Documents inserted into the collection that is driven directly.
MaxDocs == 2
\* Length of a list held by a document of that collection.
MaxLen == 2

\* ------------------------------------------------------------- constants
None == "None"
INVALID == "<HTTPException 400: Invalid ID format>"
DemoName == "Leadflow Demo"
DemoSteps == <<"Acquisition", "Setter", "Closer", "Vente">>
DemoUsers == <<"admin", "setter", "closer", "viewer">>
Observers == {"ws1", "ws2"}
Tasks == {"t1", "t2"}

\* ------------------------------------------------------------ id strings
\* bson.ObjectId: a 12-byte value; str() of it is 24 hex digits.
\* Those of the documents stored at start, and of two seedings.
OidNums == 1 .. (4 + 2 * (5 + NSeed))
OidHexTable == [n \in OidNums |-> "0000000000000000000000" \o ToString(10 + n)]
OidHex(n) == OidHexTable[n]
ObjectIdTable == [n \in OidNums |-> "ObjectId('" \o OidHexTable[n] \o "')"]
ObjectId(n) == ObjectIdTable[n]

to_obj_id(id_str) ==
    IF \E n \in OidNums : OidHex(n) = id_str
    THEN ObjectId(CHOOSE n \in OidNums : OidHex(n) = id_str)
    ELSE INVALID

\* str(): the hex digits of an ObjectId, a string as it is.
str(v) ==
    IF \E n \in OidNums : ObjectId(n) = v
    THEN OidHex(CHOOSE n \in OidNums : ObjectId(n) = v)
    ELSE v

_gen_id(name, auto) == "mem_" \o name \o "_" \o ToString(auto)

\* ------------------------------------------------------- document helpers
Get(doc, k) == IF k \in DOMAIN doc THEN doc[k] ELSE None
GetOr(doc, k, default) == IF k \in DOMAIN doc THEN doc[k] ELSE default
\* Python truthiness of an Optional[str].
Truthy(v) == v # None /\ v # ""
\* dict assignment d[k] = v for every k of upd.
SetFields(doc, upd) ==
    [k \in DOMAIN doc \cup DOMAIN upd |-> IF k \in DOMAIN upd THEN upd[k] ELSE doc[k]]
Range(s) == {s[i] : i \in DOMAIN s}
Last(s) == s[Len(s)]

Eq(v) == [op |-> "eq", val |-> v]
In(S) == [op |-> "in", vals |-> S]

\* Faulty variant: a document without the field never matches.
_match_filter_present(doc, filt) ==
    \A k \in DOMAIN filt :
        /\ k \in DOMAIN doc
        /\ IF filt[k].op = "in" THEN doc[k] \in filt[k].vals
           ELSE doc[k] = filt[k].val

_match_filter(doc, filt) ==
    \A k \in DOMAIN filt :
        IF filt[k].op = "in" THEN Get(doc, k) \in filt[k].vals
        ELSE Get(doc, k) = filt[k].val

\* Indexes of the matching documents, in store iteration order.
Matches(coll, filt) == {i \in DOMAIN coll : _match_filter(coll[i], filt)}
Min(S) == CHOOSE i \in S : \A j \in S : i <= j
Found(coll, filt) == Matches(coll, filt) # {}
find_one(coll, filt) == coll[Min(Matches(coll, filt))]

\* $set then $push on the first matching document; no-op without a match.
update_one(coll, filt, set, push) ==
    IF ~Found(coll, filt) THEN coll
    ELSE LET i == Min(Matches(coll, filt))
             afterSet == SetFields(coll[i], set)
             pushed == [k \in DOMAIN push |-> Append(GetOr(afterSet, k, <<>>), push[k])]
         IN [coll EXCEPT ![i] = SetFields(afterSet, pushed)]

\* ------------------------------------------------------------------ state
VARIABLES
    backend,             \* "mongo" or "memory": chosen once at import time
    project, user, lead, \* the collections, in insertion order
    auto,                \* ids issued so far, per collection
    clock,               \* datetime.now() readings taken so far
    active_connections,  \* project id -> list of websockets
    tasks,               \* the request tasks of the event loop
    handshake,           \* websocket -> where its accept() stands
    mem,                 \* a MemoryCollection driven directly: store and _auto
    heap,                \* the list objects its documents and its callers share
    caller,              \* what the caller of the collection holds
    threads,             \* threadpool workers inside insert_one
    persistent           \* the document database run on the same calls

\* The state of the collection driven directly, and of its callers.
library == <<mem, heap, caller, threads, persistent>>

vars == <<backend, project, user, lead, auto, clock, active_connections, tasks,
          handshake, library>>

\* The state of the application, which calls on the collection leave alone.
app == <<backend, project, user, lead, auto, clock, active_connections, tasks,
         handshake>>

\* ------------------------------------------------------- initial content
\* A persistent database outlives the process, so it may already hold
\* documents: two projects and one lead.  The in-memory store starts empty.
KeyABC == OidHex(1)
KeyEmpty == OidHex(2)
KeyDangling == OidHex(3)

StoredProjects ==
    << [_id |-> ObjectId(1), name |-> "Pipeline", steps |-> <<"A", "B", "C">>,
        members |-> <<>>],
       [_id |-> ObjectId(2), name |-> "Empty", steps |-> <<>>, members |-> <<>>] >>

CreatedEntry(project_id, to_step, at) ==
    [project_id |-> project_id, lead_id |-> "", type |-> "created",
     to_step |-> to_step, created_at |-> at]

StoredLeadBase(step, status, project_id) ==
    [_id |-> ObjectId(4), current_step |-> step, status |-> status,
     updated_at |-> 0,
     history |-> << CreatedEntry(project_id, step, 0) >>]

\* The leads a persistent database may hold at start: in a project at one
\* of its steps or at a step the project no longer has, in a project with
\* no steps, or with a project_id that is absent, empty or resolves to
\* no project.
StoredLeads ==
    { SetFields(StoredLeadBase(s, st, KeyABC), [project_id |-> KeyABC]) :
          s \in {"A", "X"}, st \in {"new", "paused"} }
    \cup { SetFields(StoredLeadBase("A", "new", pid), [project_id |-> pid]) :
          pid \in {KeyEmpty, KeyDangling, "", "not-an-id"} }
    \cup { StoredLeadBase("A", "new", "") }

IdleTask == [pc |-> "idle"]
\* A websocket no endpoint call has been made for yet.
NewSocket == [state |-> "new"]
\* MemoryCollection.__init__
EmptyCollection == [store |-> <<>>, _auto |-> 0]
\* The caller of the collection before its first call.
NoCall == [op |-> "none"]
\* The threadpool workers that run the handlers declared with def.
Threads == {"th1", "th2"}
\* issued: the ids insert_one has returned to the worker so far.
IdleThread == [pc |-> "idle", issued |-> <<>>]

Init ==
    /\ backend \in {"mongo", "memory"}
    /\ user = <<>>
    /\ IF backend = "mongo"
       THEN /\ project = StoredProjects
            /\ \E l \in StoredLeads : lead = <<l>>
            /\ auto = [project |-> 0, user |-> 0, lead |-> 0, oid |-> 4]
       ELSE /\ project = <<>>
            /\ lead = <<>>
            /\ auto = [project |-> 0, user |-> 0, lead |-> 0, oid |-> 0]
    /\ clock = 0
    /\ active_connections = [p \in {} |-> <<>>]
    /\ tasks = [t \in Tasks |-> IdleTask]
    /\ handshake = [ws \in Observers |-> NewSocket]
    /\ mem = EmptyCollection
    /\ heap = <<>>
    /\ caller = NoCall
    /\ threads = [th \in Threads |-> IdleThread]
    /\ persistent = <<>>

\* ------------------------------------------------- realtime fan-out manager
\* self.active_connections.get(project_id, [])
get_connections(conns, project_id) ==
    IF project_id \in DOMAIN conns THEN conns[project_id] ELSE <<>>

\* list.remove(x): drops the first occurrence; ValueError when there is none.
RemoveFirst(s, x) ==
    LET i == Min({j \in DOMAIN s : s[j] = x})
    IN SubSeq(s, 1, i - 1) \o SubSeq(s, i + 1, Len(s))

\* setdefault(project_id, []).append(websocket)
register(conns, project_id, ws) ==
    [p \in DOMAIN conns \cup {project_id} |->
        IF p = project_id THEN Append(get_connections(conns, p), ws) ELSE conns[p]]

disconnect(conns, project_id, ws) ==
    IF project_id \in DOMAIN conns /\ ws \in Range(conns[project_id])
    THEN [conns EXCEPT ![project_id] = RemoveFirst(@, ws)]
    ELSE conns

\* Faulty variant: the websocket is registered whatever the handshake gave.
after_accept_always(conns, project_id, ws, ok) == register(conns, project_id, ws)

\* connect, lines 31-32: accept() returns and the append runs, or accept()
\* raises and the exception leaves connect before the append.
after_accept(conns, project_id, ws, ok) ==
    IF ok THEN register(conns, project_id, ws) ELSE conns

\* Faulty variant: the broadcast goes to the websockets of every project.
broadcast_targets_all(conns, project_id) ==
    LET RECURSIVE Flat(_)
        Flat(K) == IF K = {} THEN <<>>
                   ELSE LET k == CHOOSE k \in K : TRUE IN conns[k] \o Flat(K \ {k})
    IN Flat(DOMAIN conns)

\* list(self.active_connections.get(project_id, [])): the sends of a broadcast.
broadcast_targets(conns, project_id) == get_connections(conns, project_id)

\* --------------------------------------------------- pipeline state machine
IndexOf(steps, x) == Min({i \in DOMAIN steps : steps[i] = x})

\* Faulty variant: the index past the last step wraps around instead of clamping.
new_step_wraps(steps, current_step, to_step) ==
    IF Truthy(to_step) /\ to_step \in Range(steps) THEN to_step
    ELSE IF current_step \in Range(steps)
         THEN steps[(IndexOf(steps, current_step) % Len(steps)) + 1]
         ELSE IF steps # <<>> THEN steps[1] ELSE current_step

\* Faulty variant: a requested step is taken without the membership test.
new_step_unchecked(steps, current_step, to_step) ==
    IF Truthy(to_step) THEN to_step
    ELSE IF current_step \in Range(steps)
         THEN LET idx == IndexOf(steps, current_step)
              IN steps[IF idx + 1 <= Len(steps) THEN idx + 1 ELSE Len(steps)]
         ELSE IF steps # <<>> THEN steps[1] ELSE current_step

\* advance_lead, lines 262-270: the step the call writes.
new_step(steps, current_step, to_step) ==
    IF Truthy(to_step) /\ to_step \in Range(steps) THEN to_step
    ELSE IF current_step \in Range(steps)
         THEN LET idx == IndexOf(steps, current_step)
              IN steps[IF idx + 1 <= Len(steps) THEN idx + 1 ELSE Len(steps)]
         ELSE IF steps # <<>> THEN steps[1] ELSE current_step

\* advance_lead, lines 272-274; steps[-1] of an empty list raises IndexError.
StatusRaises(steps) == steps = <<>>
\* Faulty variant: a step that is not the last resets the status.
new_status_resets(l, steps, step) ==
    IF step = Last(steps) THEN "won" ELSE "active"
\* Faulty variant: the last step is not recognised.
new_status_keeps(l, steps, step) == GetOr(l, "status", "active")
new_status(l, steps, step) ==
    IF step = Last(steps) THEN "won" ELSE GetOr(l, "status", "active")

AdvancedEntry(project_id, lead_id, from_step, to_step, at) ==
    [project_id |-> project_id, lead_id |-> lead_id, type |-> "advanced",
     from_step |-> from_step, to_step |-> to_step, created_at |-> at]

\* Faulty variant: an entry equal to one already in the history, apart from
\* its time, is not appended again.
advance_write_dedupes(coll, oid, step, status, entry, at) ==
    LET same(e) == e.type = "advanced" /\ e.from_step = entry.from_step
                                       /\ e.to_step = entry.to_step
        old == find_one(coll, [_id |-> Eq(oid)]).history
    IN update_one(coll, [_id |-> Eq(oid)],
                  [current_step |-> step, status |-> status, updated_at |-> at],
                  IF \E n \in DOMAIN old : same(old[n]) THEN << >>
                  ELSE [history |-> entry])

\* Faulty variant: the write is left out and the broadcast goes ahead.
advance_write_skips(coll, oid, step, status, entry, at) == coll

\* Faulty variant: the history is overwritten by the new entry instead of extended.
advance_write_replaces(coll, oid, step, status, entry, at) ==
    update_one(coll, [_id |-> Eq(oid)],
               [current_step |-> step, status |-> status, updated_at |-> at,
                history |-> <<entry>>],
               << >>)

\* advance_lead, lines 276-291: one update_one with $set and $push.
advance_write(coll, oid, step, status, entry, at) ==
    update_one(coll, [_id |-> Eq(oid)],
               [current_step |-> step, status |-> status, updated_at |-> at],
               [history |-> entry])

\* advance_lead, line 257: the project the lead is advanced against.
\* kind is "doc" (found), "none" (no such project) or "badid" (to_obj_id raised).
resolve_project(projects, l) ==
    IF ~Truthy(Get(l, "project_id"))
    THEN IF Found(projects, [name |-> Eq(DemoName)])
         THEN [kind |-> "doc", doc |-> find_one(projects, [name |-> Eq(DemoName)])]
         ELSE [kind |-> "none"]
    ELSE IF to_obj_id(l.project_id) = INVALID THEN [kind |-> "badid"]
    ELSE IF Found(projects, [_id |-> Eq(to_obj_id(l.project_id))])
         THEN [kind |-> "doc",
               doc |-> find_one(projects, [_id |-> Eq(to_obj_id(l.project_id))])]
         ELSE [kind |-> "none"]

\* updated["id"] = str(updated.pop("_id"))
WithId(doc) ==
    [k \in (DOMAIN doc \ {"_id"}) \cup {"id"} |->
        IF k = "id" THEN str(doc._id) ELSE doc[k]]

\* The response of a call that raised.
Failed(code, detail) == [pc |-> "done", code |-> code, detail |-> detail]

\* advance_lead, lines 299-301: the response, read back after the broadcast.
Returned(task, coll) ==
    [pc |-> "done", code |-> 200, key |-> task.key, msg |-> task.msg,
     body |-> WithId(find_one(coll, [_id |-> Eq(to_obj_id(task.msg.lead_id))]))]

\* ----------------------------------------------------------------- actions
\* ConnectionManager.connect, called by websocket_endpoint: the handshake,
\* then the append.  At most cap websockets are kept under one project id.
Connect(project_id, ws, cap) ==
    /\ Len(get_connections(active_connections, project_id)) < cap
    /\ active_connections' = register(active_connections, project_id, ws)
    /\ UNCHANGED <<backend, project, user, lead, auto, clock, tasks>>
    /\ UNCHANGED <<handshake, library>>

\* ConnectionManager.disconnect, called by websocket_endpoint when the peer
\* goes away.
Disconnect(project_id, ws) ==
    /\ active_connections' = disconnect(active_connections, project_id, ws)
    /\ UNCHANGED <<backend, project, user, lead, auto, clock, tasks>>
    /\ UNCHANGED <<handshake, library>>

\* websocket_endpoint is called for a new connection: connect sends the
\* accept and is suspended until the handshake is over.
Open(project_id, ws) ==
    /\ handshake[ws].state = "new"
    /\ handshake' = [handshake EXCEPT ![ws] =
                        [state |-> "accepting", project_id |-> project_id]]
    /\ UNCHANGED <<backend, project, user, lead, auto, clock, active_connections,
                   tasks, library>>

\* await websocket.accept() is over: the handshake completed or failed.
Accept(ws, ok) ==
    /\ handshake[ws].state = "accepting"
    /\ handshake' = [handshake EXCEPT ![ws].state =
                        IF ok THEN "accepted" ELSE "failed"]
    /\ active_connections' =
          after_accept(active_connections, handshake[ws].project_id, ws, ok)
    /\ UNCHANGED <<backend, project, user, lead, auto, clock, tasks, library>>

\* websocket_endpoint, lines 320-324: receive_text raises WebSocketDisconnect
\* on an accepted connection.
PeerGone(ws) ==
    /\ handshake[ws].state = "accepted"
    /\ Disconnect(handshake[ws].project_id, ws)

\* advance_lead up to its first suspension: the reads, the write and the
\* snapshot of the observers.  With no observer the call runs to its return.
AdvanceLead(t, lead_id, to_step) ==
    /\ tasks[t].pc = "idle"
    /\ LET oid == to_obj_id(lead_id)
           fail(code, detail) ==
               /\ tasks' = [tasks EXCEPT ![t] = Failed(code, detail)]
               /\ UNCHANGED <<lead, clock, active_connections>>
       IN
       IF oid = INVALID THEN fail(400, "Invalid ID format")
       ELSE IF ~Found(lead, [_id |-> Eq(oid)]) THEN fail(404, "Lead not found")
       ELSE
         LET l == find_one(lead, [_id |-> Eq(oid)])
             pr == resolve_project(project, l)
         IN
         IF pr.kind = "badid" THEN fail(400, "Invalid ID format")
         ELSE IF pr.kind = "none" THEN fail(400, "Project not found for lead")
         ELSE
           LET steps == GetOr(pr.doc, "steps", <<>>)
               current_step == Get(l, "current_step")
               step == new_step(steps, current_step, to_step)
           IN
           IF StatusRaises(steps) THEN fail(500, "IndexError")
           ELSE
             LET now == clock + 1
                 key == str(pr.doc._id)
                 entry == AdvancedEntry(key, lead_id, current_step, step, now)
                 written == advance_write(lead, oid, step,
                                          new_status(l, steps, step), entry, now)
                 started ==
                     [pc |-> "sending", key |-> key,
                      msg |-> [type |-> "lead_advanced", lead_id |-> lead_id,
                               from |-> current_step, to |-> step],
                      snapshot |-> broadcast_targets(active_connections, key),
                      idx |-> 1]
             IN
             /\ clock < MaxClock
             /\ clock' = now
             /\ lead' = written
             /\ tasks' = [tasks EXCEPT ![t] =
                             IF started.snapshot = <<>>
                             THEN Returned(started, written) ELSE started]
             /\ UNCHANGED active_connections
    /\ UNCHANGED <<backend, project, user, auto, handshake, library>>

\* ConnectionManager.broadcast: one await ws.send_json(message) completes or
\* raises; a failed send disconnects the observer.  After the last one
\* advance_lead reads the lead back and returns.
BroadcastSend(t, ok) ==
    /\ tasks[t].pc = "sending"
    /\ LET task == tasks[t]
           ws == task.snapshot[task.idx]
           next == [task EXCEPT !.idx = @ + 1]
       IN
       /\ active_connections' =
             IF ok THEN active_connections
             ELSE disconnect(active_connections, task.key, ws)
       /\ tasks' = [tasks EXCEPT ![t] =
                       IF next.idx > Len(task.snapshot)
                       THEN Returned(next, lead) ELSE next]
    /\ UNCHANGED <<backend, project, user, lead, auto, clock, handshake, library>>

\* ------------------------------------------- advance_lead, call by call
\* advance_lead makes three separate calls on the database: find_one (line
\* 253, with the project lookup of line 257), update_one (276-291) and the
\* find_one of the response (299).  One event loop runs the first two back
\* to back (AdvanceLead); server processes that share the database run them
\* in any order with each other's.
\* lines 253-274: what the request is about to write, from what it read.
advance_plan(leads, projects, lead_id, to_step) ==
    LET oid == to_obj_id(lead_id) IN
    IF oid = INVALID THEN Failed(400, "Invalid ID format")
    ELSE IF ~Found(leads, [_id |-> Eq(oid)]) THEN Failed(404, "Lead not found")
    ELSE
      LET l == find_one(leads, [_id |-> Eq(oid)])
          pr == resolve_project(projects, l)
      IN
      IF pr.kind = "badid" THEN Failed(400, "Invalid ID format")
      ELSE IF pr.kind = "none" THEN Failed(400, "Project not found for lead")
      ELSE
        LET steps == GetOr(pr.doc, "steps", <<>>)
            current_step == Get(l, "current_step")
            step == new_step(steps, current_step, to_step)
        IN
        IF StatusRaises(steps) THEN Failed(500, "IndexError")
        ELSE [pc |-> "read", lead_id |-> lead_id, key |-> str(pr.doc._id),
              from |-> current_step, step |-> step,
              status |-> new_status(l, steps, step)]

AdvanceRead(t, lead_id, to_step) ==
    /\ tasks[t].pc = "idle"
    /\ clock < MaxClock
    /\ tasks' = [tasks EXCEPT ![t] = advance_plan(lead, project, lead_id, to_step)]
    /\ UNCHANGED <<backend, project, user, lead, auto, clock, active_connections>>
    /\ UNCHANGED <<handshake, library>>

\* lines 276-297: the update, and the start of the broadcast.
AdvanceWrite(t) ==
    /\ tasks[t].pc = "read"
    /\ clock < MaxClock
    /\ LET plan == tasks[t]
           now == clock + 1
           entry == AdvancedEntry(plan.key, plan.lead_id, plan.from, plan.step, now)
           written == advance_write(lead, to_obj_id(plan.lead_id), plan.step,
                                    plan.status, entry, now)
           started ==
               [pc |-> "sending", key |-> plan.key,
                msg |-> [type |-> "lead_advanced", lead_id |-> plan.lead_id,
                         from |-> plan.from, to |-> plan.step],
                snapshot |-> broadcast_targets(active_connections, plan.key),
                idx |-> 1]
       IN
       /\ clock' = now
       /\ lead' = written
       /\ tasks' = [tasks EXCEPT ![t] =
                       IF started.snapshot = <<>>
                       THEN Returned(started, written) ELSE started]
    /\ UNCHANGED <<backend, project, user, auto, active_connections>>
    /\ UNCHANGED <<handshake, library>>

\* ------------------------------------------------------------ demo seeding
\* insert_one: the id of the k-th document inserted by one handler, the
\* n-th of them into collection name.
NewId(name, k, n) ==
    IF backend = "mongo" THEN ObjectId(auto.oid + k) ELSE _gen_id(name, auto[name] + n)

\* One seeded lead: random.choices([0, 1, 2, 3]) for the step.  The fields
\* no handler reads after the insert (name, source, entered_at, assigned_to,
\* notes, appointments) are left out of the documents.
SeedChoices == { [step_index |-> i] : i \in 0 .. 3 }

SeedLead(id, project_id, c, now) ==
    LET current_step == DemoSteps[c.step_index + 1]
    IN [_id |-> id, project_id |-> project_id, current_step |-> current_step,
        status |-> "active",
        history |-> << CreatedEntry(project_id, current_step, now) >>,
        created_at |-> now, updated_at |-> now]

\* ensure_demo_project, lines 121-182: the project, its four users and its
\* leads are created, then the members are attached; to_obj_id raises there
\* on an in-memory id.
Seed(choice) ==
    /\ clock < MaxClock
    /\ LET now == clock + 1
           pid == NewId("project", 1, 1)
           project_id == str(pid)
           uid(j) == NewId("user", 1 + j, j)
           user_ids == [j \in 1 .. Len(DemoUsers) |-> str(uid(j))]
           created == Append(project,
                         [_id |-> pid, name |-> DemoName, steps |-> DemoSteps,
                          members |-> <<>>, created_at |-> now, updated_at |-> now])
       IN
       /\ user' = user \o [j \in 1 .. Len(DemoUsers) |->
                             [_id |-> uid(j), role |-> DemoUsers[j],
                              created_at |-> now, updated_at |-> now]]
       /\ lead' = lead \o [i \in 1 .. NSeed |->
                             SeedLead(NewId("lead", 1 + Len(DemoUsers) + i, i),
                                      project_id, choice[i], now)]
       /\ project' =
             IF to_obj_id(project_id) = INVALID THEN created
             ELSE update_one(created, [_id |-> Eq(to_obj_id(project_id))],
                             [members |-> user_ids], << >>)
       /\ auto' = [project |-> auto.project + 1,
                   user |-> auto.user + Len(DemoUsers),
                   lead |-> auto.lead + NSeed,
                   oid |-> auto.oid + 1 + Len(DemoUsers) + NSeed]
       /\ clock' = now

\* GET /api/demo/bootstrap, one request at a time: ensure_demo_project seeds
\* when no project is named "Leadflow Demo".
DemoBootstrap(choice) ==
    /\ ~Found(project, [name |-> Eq(DemoName)])
    /\ Seed(choice)
    /\ UNCHANGED <<backend, active_connections, tasks, handshake, library>>

\* GET /api/demo/bootstrap on the threadpool: demo_bootstrap is declared with
\* def, so each request runs on a worker thread of its own, and the find_one
\* of line 118 and the creation that follows are separate calls on the store.
\* line 118-120: the lookup; the request returns the id when there is one.
BootstrapFind(th) ==
    /\ threads[th].pc = "idle"
    /\ threads' = [threads EXCEPT ![th].pc =
                      IF Found(project, [name |-> Eq(DemoName)])
                      THEN "responding" ELSE "creating"]
    /\ UNCHANGED <<app, mem, heap, caller, persistent>>

\* lines 121-184, by a request that found no demo project.
BootstrapCreate(th, choice) ==
    /\ threads[th].pc = "creating"
    /\ Seed(choice)
    /\ threads' = [threads EXCEPT ![th].pc = "responding"]
    /\ UNCHANGED <<backend, active_connections, tasks, handshake>>
    /\ UNCHANGED <<mem, heap, caller, persistent>>

\* lines 189-202: the response (or the error to_obj_id raised) is sent.
BootstrapRespond(th) ==
    /\ threads[th].pc = "responding"
    /\ threads' = [threads EXCEPT ![th].pc = "idle"]
    /\ UNCHANGED <<app, mem, heap, caller, persistent>>

\* The response is sent and the request task ends.
Respond(t) ==
    /\ tasks[t].pc = "done"
    /\ tasks' = [tasks EXCEPT ![t] = IdleTask]
    /\ UNCHANGED <<backend, project, user, lead, auto, clock, active_connections>>
    /\ UNCHANGED <<handshake, library>>

\* ----------------------------------------------- MemoryCollection, directly
\* The collection db["lead"] of the in-memory backend, called as a library.
\* A document maps field names to strings; a field that holds a Python list
\* holds the name of a list object, and heap gives the items of each list
\* object, so that two dicts can hold the same list.
ListNames == [n \in 1 .. MaxDocs + 1 |-> "<list " \o ToString(n) \o ">"]
IsList(h, v) == \E n \in DOMAIN h : ListNames[n] = v
ListIndex(v) == CHOOSE n \in DOMAIN ListNames : ListNames[n] = v
NEWLIST == "[]"
NoFields == [k \in {} |-> None]
\* find_one's None; "if not doc" takes it as it takes an empty dict.
NoDoc == NoFields

\* What a document looks like to a reader: every list by its items.
Value(h, doc) ==
    [k \in DOMAIN doc |-> IF IsList(h, doc[k]) THEN h[ListIndex(doc[k])] ELSE doc[k]]

\* self.store is a dict: id -> doc, in insertion order.
Docs(store) == [i \in DOMAIN store |-> store[i].doc]
HasKey(store, key) == \E i \in DOMAIN store : store[i].key = key
KeyIndex(store, key) == CHOOSE i \in DOMAIN store : store[i].key = key
\* self.store[key] = doc
store_put(store, key, doc) ==
    IF HasKey(store, key) THEN [store EXCEPT ![KeyIndex(store, key)].doc = doc]
    ELSE Append(store, [key |-> key, doc |-> doc])

\* find: dict(doc) of every matching document, in store order.  dict(doc)
\* copies the mapping and not the lists it holds.
mem_find(store, filt) ==
    LET keep(d) == _match_filter(d, filt) IN SelectSeq(Docs(store), keep)

\* find_one: the first of them, or None.
mem_find_one(store, filt) ==
    IF mem_find(store, filt) = <<>> THEN NoDoc ELSE Head(mem_find(store, filt))

\* insert_one: _gen_id, dict(data), to_insert["_id"] = _id, the store write.
mem_insert_one(m, data) ==
    LET n == m._auto + 1
        _id == _gen_id("lead", n)
    IN [store |-> store_put(m.store, _id, SetFields(data, [_id |-> _id])),
        _auto |-> n]

\* update_one: the first match is looked up again by its "_id" in the dict,
\* $set and $push are applied to the stored dict in place, and a raise
\* (KeyError on the lookup, AttributeError on append) leaves what has been
\* applied so far.  push names at most one field.
mem_update_one(store, h, filt, set, push) ==
    LET doc == mem_find_one(store, filt) IN
    IF doc = NoDoc THEN [store |-> store, heap |-> h, raised |-> None]
    ELSE IF ~HasKey(store, doc._id)
    THEN [store |-> store, heap |-> h, raised |-> "KeyError"]
    ELSE
      LET i == KeyIndex(store, doc._id)
          afterSet == SetFields(store[i].doc, set)
      IN
      IF DOMAIN push = {}
      THEN [store |-> [store EXCEPT ![i].doc = afterSet], heap |-> h, raised |-> None]
      ELSE
        LET k == CHOOSE k \in DOMAIN push : TRUE
            defaulted == IF k \in DOMAIN afterSet THEN afterSet
                         ELSE SetFields(afterSet, [f \in {k} |-> ListNames[Len(h) + 1]])
            h1 == IF k \in DOMAIN afterSet THEN h ELSE Append(h, <<>>)
        IN
        IF IsList(h1, defaulted[k])
        THEN [store |-> [store EXCEPT ![i].doc = defaulted],
              heap |-> [h1 EXCEPT ![ListIndex(defaulted[k])] = Append(@, push[k])],
              raised |-> None]
        ELSE [store |-> [store EXCEPT ![i].doc = defaulted], heap |-> h1,
              raised |-> "AttributeError"]

\* get_documents: list(find(filter_dict or {})), cut to limit "if limit".
\* An Optional[int] is <<>> for None and <<n>> for the integer n.
get_documents(store, filt, limit) ==
    LET docs == mem_find(store, filt)
    IN IF limit # <<>> /\ limit[1] # 0
       THEN SubSeq(docs, 1, Min({limit[1], Len(docs)}))
       ELSE docs

\* The calls of the caller.  A new document has a status and may have a
\* history: a new list, or a string where a list is expected.
InsertData ==
    { [status |-> "new"],
      [status |-> "new", history |-> NEWLIST],
      [status |-> "new", history |-> "text"],
      [status |-> "won", history |-> "text"] }
Filters ==
    { NoFields,
      [status |-> Eq("won")],
      [history |-> Eq(None)],
      [history |-> Eq("text")],
      [status |-> In({"new"}), history |-> In({"text", None})],
      [_id |-> Eq(_gen_id("lead", 1))] }
UpdateFilters == { [_id |-> Eq(_gen_id("lead", 1))], [status |-> Eq("new")] }
Sets == { NoFields, [status |-> "won"], [_id |-> _gen_id("lead", 2)] }
Pushes == { NoFields, [history |-> "e"] }
Limits == {<<>>} \cup {<<n>> : n \in 0 .. MaxDocs + 1}

\* The lists stay within MaxLen items.
Bounded(h) == \A n \in DOMAIN h : Len(h[n]) <= MaxLen

\* create_document's db[collection_name].insert_one(data_dict), as far as
\* the in-memory collection goes.
InsertCall(data) ==
    /\ Len(mem.store) < MaxDocs
    /\ LET fresh == "history" \in DOMAIN data /\ data.history = NEWLIST
           given == IF fresh THEN [data EXCEPT !.history = ListNames[Len(heap) + 1]]
                    ELSE data
       IN /\ heap' = IF fresh THEN Append(heap, <<>>) ELSE heap
          /\ mem' = mem_insert_one(mem, given)
          /\ caller' = [op |-> "insert_one", id |-> _gen_id("lead", mem._auto + 1)]

InsertOne(data) ==
    /\ InsertCall(data)
    /\ UNCHANGED <<app, threads, persistent>>

\* db["lead"].find_one(filt): the caller keeps the document.
FindOne(filt) ==
    /\ caller' = [op |-> "find_one", filt |-> filt, doc |-> mem_find_one(mem.store, filt)]
    /\ UNCHANGED <<app, mem, heap, threads, persistent>>

\* list(db["lead"].find(filt))
Find(filt) ==
    /\ caller' = [op |-> "find", filt |-> filt, docs |-> mem_find(mem.store, filt)]
    /\ UNCHANGED <<app, mem, heap, threads, persistent>>

\* The caller assigns to a field of the document it was returned.
MutateField(k, v) ==
    /\ caller.op = "find_one" /\ caller.doc # NoDoc
    /\ caller' = [caller EXCEPT !.doc = SetFields(@, [f \in {k} |-> v])]
    /\ UNCHANGED <<app, mem, heap, threads, persistent>>

\* The caller appends to a list of the document it was returned.
MutateNested(k, v) ==
    /\ caller.op = "find_one" /\ caller.doc # NoDoc
    /\ k \in DOMAIN caller.doc /\ IsList(heap, caller.doc[k])
    /\ heap' = [heap EXCEPT ![ListIndex(caller.doc[k])] = Append(@, v)]
    /\ Bounded(heap')
    /\ UNCHANGED <<app, mem, caller, threads, persistent>>

\* db["lead"].update_one(filt, {"$set": set, "$push": push}), as far as the
\* in-memory collection goes.
UpdateCall(filt, set, push) ==
    /\ LET r == mem_update_one(mem.store, heap, filt, set, push)
       IN /\ mem' = [mem EXCEPT !.store = r.store]
          /\ heap' = r.heap
          /\ caller' = [op |-> "update_one", raised |-> r.raised]
    /\ Bounded(heap')

UpdateOne(filt, set, push) ==
    /\ UpdateCall(filt, set, push)
    /\ UNCHANGED <<app, threads, persistent>>

\* get_documents("lead", filt, limit)
GetDocuments(filt, limit) ==
    /\ caller' = [op |-> "get_documents", filt |-> filt, limit |-> limit,
                  docs |-> get_documents(mem.store, filt, limit)]
    /\ UNCHANGED <<app, mem, heap, threads, persistent>>

\* ------------------------------------------- the persistent backend, beside
\* The document database that db is when DATABASE_URL is usable, as the
\* Document Store contract describes it: documents are values (every read
\* is a copy), the id of a document is fixed at insert, and an update
\* applies all of its operators or, when one of them cannot be applied,
\* none.  Ids are written by their order of issue, as the in-memory ones.
db_insert_one(coll, data) ==
    LET shown == IF "history" \in DOMAIN data /\ data.history = NEWLIST
                 THEN [data EXCEPT !.history = <<>>] ELSE data
    IN Append(coll, SetFields(shown, [_id |-> _gen_id("lead", Len(coll) + 1)]))

db_rejects(doc, set, push) ==
    \/ "_id" \in DOMAIN set /\ set._id # doc._id
    \/ \E k \in DOMAIN push :
           LET after == SetFields(doc, set)
           IN k \in DOMAIN after /\ after[k] \notin Seq({"e"})

db_update_one(coll, filt, set, push) ==
    IF ~Found(coll, filt) THEN coll
    ELSE IF db_rejects(find_one(coll, filt), set, push) THEN coll
    ELSE update_one(coll, filt, set, push)

db_find(coll, filt) ==
    LET keep(d) == _match_filter(d, filt) IN SelectSeq(coll, keep)

\* One call of a script, made on both backends.
ScriptInsert(data) ==
    /\ InsertCall(data)
    /\ persistent' = db_insert_one(persistent, data)
    /\ UNCHANGED <<app, threads>>

ScriptUpdate(filt, set, push) ==
    /\ UpdateCall(filt, set, push)
    /\ persistent' = db_update_one(persistent, filt, set, push)
    /\ \A n \in DOMAIN persistent' :
           "history" \in DOMAIN persistent'[n] /\ persistent'[n].history # "text"
               => Len(persistent'[n].history) <= MaxLen
    /\ UNCHANGED <<app, threads>>

\* ------------------------------------------------ insert_one on two threads
\* demo_bootstrap is declared with def, so its requests run on threadpool
\* workers and their insert_one calls on db["lead"] interleave between
\* bytecodes.  The store has no lock; these are the four places where
\* insert_one reads or writes the shared collection.
\* _gen_id, line 55, the read of self._auto in "self._auto += 1".
AutoLoad(th) ==
    /\ threads[th].pc = "idle" /\ Len(threads[th].issued) < MaxDocs
    /\ threads' = [threads EXCEPT ![th] =
                      [pc |-> "loaded", issued |-> @.issued, read |-> mem._auto,
                       data |-> [owner |-> th, call |-> Len(@.issued) + 1]]]
    /\ UNCHANGED <<app, mem, heap, caller, persistent>>

\* _gen_id, line 55, the write of self._auto in "self._auto += 1".
AutoStore(th) ==
    /\ threads[th].pc = "loaded"
    /\ mem' = [mem EXCEPT !._auto = threads[th].read + 1]
    /\ threads' = [threads EXCEPT ![th].pc = "stored"]
    /\ UNCHANGED <<app, heap, caller, persistent>>

\* _gen_id, line 56: the id is formatted from self._auto as it is now.
IdFormat(th) ==
    /\ threads[th].pc = "stored"
    /\ threads' = [threads EXCEPT ![th] =
                      [pc |-> "named", issued |-> @.issued, data |-> @.data,
                       _id |-> _gen_id("lead", mem._auto)]]
    /\ UNCHANGED <<app, mem, heap, caller, persistent>>

\* insert_one, lines 71-74: self.store[_id] = to_insert, and the return.
StorePut(th) ==
    /\ threads[th].pc = "named"
    /\ LET _id == threads[th]._id
       IN /\ mem' = [mem EXCEPT !.store =
                        store_put(@, _id, SetFields(threads[th].data, [_id |-> _id]))]
          /\ threads' = [threads EXCEPT ![th] =
                            [pc |-> "idle", issued |-> Append(@.issued, _id)]]
    /\ UNCHANGED <<app, heap, caller, persistent>>

\* ------------------------------------------------------------ the program
KeyDemo == OidHex(5)
ProjectKeys == {KeyABC, KeyDemo}
LeadIds == {str(lead[i]._id) : i \in DOMAIN lead} \cup {KeyDangling, "mem_lead_9"}
\* to_step of the payload: absent, empty, or a step name ("A" is a step of
\* the stored project and not one of the demo project).
RequestedSteps == {None, "", "A"}

\* The websocket endpoint and the advance endpoint, with request tasks T,
\* websockets O connecting under the project ids K (at most cap under each),
\* and advance payloads R.
Serve(T, K, O, R, cap) ==
    \/ \E p \in K, ws \in O : Connect(p, ws, cap)
    \/ \E p \in K, ws \in O : Disconnect(p, ws)
    \/ \E t \in T, id \in LeadIds, to \in R : AdvanceLead(t, id, to)
    \/ \E t \in T, ok \in BOOLEAN : BroadcastSend(t, ok)
    \/ \E t \in T : Respond(t)

\* The steps of the program: the two endpoints and the demo bootstrap.
Step(T, K, O, R, cap) ==
    \/ Serve(T, K, O, R, cap)
    \/ \E choice \in [1 .. NSeed -> SeedChoices] : DemoBootstrap(choice)

Next == Step(Tasks, ProjectKeys, Observers, RequestedSteps, MaxConn)
Spec == Init /\ [][Next]_vars

\* One request at a time, one websocket: the store side of advance_lead.
NextPipeline == Step({"t1"}, {KeyABC}, {"ws1"}, RequestedSteps, 1)
SpecPipeline == Init /\ [][NextPipeline]_vars

\* Websockets under two project ids and default advances on a lead of the
\* stored project: the fan-out side of advance_lead.
InitFanout ==
    /\ Init
    /\ backend = "mongo"
    /\ lead = << SetFields(StoredLeadBase("A", "new", KeyABC), [project_id |-> KeyABC]) >>
NextFanout == Serve({"t1"}, ProjectKeys, Observers, {None}, MaxConn)
SpecFanout == InitFanout /\ [][NextFanout]_vars

\* Demo-bootstrap requests on two threadpool workers.
NextBootstrap ==
    \E th \in Threads :
        \/ BootstrapFind(th)
        \/ \E choice \in [1 .. NSeed -> SeedChoices] : BootstrapCreate(th, choice)
        \/ BootstrapRespond(th)
SpecBootstrap == Init /\ [][NextBootstrap]_vars

\* Two advance requests at a time on the lead of the stored project, with
\* one websocket: requests of one event loop overlap during a broadcast.
NextOverlap == Serve(Tasks, {KeyABC}, {"ws1"}, {None}, 1)
SpecOverlap == InitFanout /\ [][NextOverlap]_vars

\* Two advance requests at a time whose database calls come in any order.
RaceSteps == {None, "A"}
NextRace ==
    \/ \E t \in Tasks, id \in LeadIds, to \in RaceSteps : AdvanceRead(t, id, to)
    \/ \E t \in Tasks : AdvanceWrite(t)
    \/ \E t \in Tasks, ok \in BOOLEAN : BroadcastSend(t, ok)
    \/ \E t \in Tasks : Respond(t)
    \/ Connect(KeyABC, "ws1", 1)
SpecRace == InitFanout /\ [][NextRace]_vars

\* Each websocket is a new connection of websocket_endpoint: the handshake
\* side of connect, with default advances on the lead of the stored project.
NextHandshake ==
    \/ \E p \in ProjectKeys, ws \in Observers : Open(p, ws)
    \/ \E ws \in Observers, ok \in BOOLEAN : Accept(ws, ok)
    \/ \E ws \in Observers : PeerGone(ws)
    \/ \E id \in LeadIds : AdvanceLead("t1", id, None)
    \/ \E ok \in BOOLEAN : BroadcastSend("t1", ok)
    \/ Respond("t1")
SpecHandshake == InitFanout /\ [][NextHandshake]_vars

\* The in-memory backend is selected and db["lead"] is called directly by
\* one caller.
InitStore == Init /\ backend = "memory"
NextStore ==
    \/ \E data \in InsertData : InsertOne(data)
    \/ \E filt \in UpdateFilters : FindOne(filt)
    \/ MutateField("status", "changed")
    \/ MutateNested("history", "e")
    \/ \E filt \in UpdateFilters, set \in Sets, push \in Pushes : UpdateOne(filt, set, push)
SpecStore == InitStore /\ [][NextStore]_vars

\* The same collection written by the insert_one calls of two workers.
NextThreads ==
    \E th \in Threads : AutoLoad(th) \/ AutoStore(th) \/ IdFormat(th) \/ StorePut(th)
SpecThreads == InitStore /\ [][NextThreads]_vars

\* A script of insert_one, update_one and find calls run on both backends.
ScriptFilters == UpdateFilters \cup {NoFields}
NextScript ==
    \/ \E data \in InsertData : ScriptInsert(data)
    \/ \E filt \in UpdateFilters, set \in Sets, push \in Pushes : ScriptUpdate(filt, set, push)
    \/ \E filt \in ScriptFilters : Find(filt)
SpecScript == InitStore /\ [][NextScript]_vars

\* The same collection read by find and get_documents.
NextQuery ==
    \/ \E data \in InsertData : InsertOne(data)
    \/ \E filt \in Filters : FindOne(filt)
    \/ \E filt \in Filters : Find(filt)
    \/ \E filt \in Filters, limit \in Limits : GetDocuments(filt, limit)
SpecQuery == InitStore /\ [][NextQuery]_vars

\* ------------------------------------------------- vocabulary of the claims
\* Task t's advance call has just done its write (it may still be sending).
Completes(t) == tasks[t].pc = "idle" /\ tasks'[t].pc \in {"sending", "done"}
                /\ (tasks'[t].pc = "done" => tasks'[t].code = 200)
\* Task t's advance call has just ended in an error.
Errs(t) == tasks[t].pc = "idle" /\ tasks'[t].pc = "done" /\ tasks'[t].code # 200

LeadIndex(coll, id) == CHOOSE i \in DOMAIN coll : str(coll[i]._id) = id
HasLead(coll, id) == \E i \in DOMAIN coll : str(coll[i]._id) = id
HasProject(key) == \E j \in DOMAIN project : str(project[j]._id) = key
ProjectOf(key) == project[CHOOSE j \in DOMAIN project : str(project[j]._id) = key]
\* The lead's project_id names a stored project.
Owned(l) == "project_id" \in DOMAIN l /\ HasProject(l.project_id)
IsAdvanced(e, from, to) == e.type = "advanced" /\ e.from_step = from /\ e.to_step = to

\* The step the state machine of the specification's section 4.3 gives.
ExpectedStep(steps, current_step, requested) ==
    IF requested # None /\ requested \in Range(steps) THEN requested
    ELSE IF current_step \notin Range(steps) THEN steps[1]
    ELSE IF current_step = Last(steps) THEN current_step
    ELSE steps[IndexOf(steps, current_step) + 1]

\* C1: an advance against a project with a non-empty steps list writes the
\* requested step when it is given and is one of the steps, and otherwise the
\* step after the current one, steps[0] when the current step is not in
\* steps, and the current step when it is already the last.
C1_NewStep ==
    [][\A t \in Tasks : Completes(t) =>
          \A to \in RequestedSteps :
              AdvanceLead(t, tasks'[t].msg.lead_id, to) =>
                  LET i == LeadIndex(lead, tasks'[t].msg.lead_id)
                      steps == ProjectOf(tasks'[t].key).steps
                  IN /\ steps # <<>>
                     /\ lead'[i].current_step =
                            ExpectedStep(steps, lead[i].current_step, to)]_vars

\* Steps [A, B, C], a lead created at A, three advances: B, then C, then C.
C1_Witness ==
    \E i \in DOMAIN lead :
        /\ Owned(lead[i]) /\ ProjectOf(lead[i].project_id).steps = <<"A", "B", "C">>
        /\ Len(lead[i].history) = 4
        /\ lead[i].history[1].to_step = "A"
        /\ IsAdvanced(lead[i].history[2], "A", "B")
        /\ IsAdvanced(lead[i].history[3], "B", "C")
        /\ IsAdvanced(lead[i].history[4], "C", "C")

\* C2: after an advance that completes, the status is won when the new step
\* is the last of the project's steps and otherwise the status the lead had
\* before the call (a won lead moved back stays won).
C2_Status ==
    [][\A t \in Tasks : Completes(t) =>
          LET i == LeadIndex(lead, tasks'[t].msg.lead_id)
              steps == ProjectOf(tasks'[t].key).steps
          IN lead'[i].status =
                 IF lead'[i].current_step = Last(steps) THEN "won"
                 ELSE lead[i].status]_vars

\* A won lead that an explicit step has moved back to a step that is not the last.
C2_Witness ==
    \E i \in DOMAIN lead :
        /\ Owned(lead[i]) /\ lead[i].status = "won"
        /\ Last(lead[i].history).type = "advanced"
        /\ lead[i].current_step # Last(ProjectOf(lead[i].project_id).steps)

\* C3 as stated: a lead of the demo project is won exactly when its
\* current_step is the last of the project's steps.
C3_WonIffLast ==
    \A i \in DOMAIN lead :
        (Owned(lead[i]) /\ ProjectOf(lead[i].project_id).name = DemoName) =>
            (lead[i].status = "won" <=>
                 lead[i].current_step = Last(ProjectOf(lead[i].project_id).steps))

\* C3 as amended: a lead that has been advanced and is at the last of its
\* project's steps is won.
C3_AdvancedAtLastIsWon ==
    \A i \in DOMAIN lead :
        (/\ Owned(lead[i]) /\ ProjectOf(lead[i].project_id).steps # <<>>
         /\ Last(lead[i].history).type = "advanced"
         /\ lead[i].current_step = Last(ProjectOf(lead[i].project_id).steps))
        => lead[i].status = "won"

\* A seeded lead advanced to the last step of the demo project.
C3_Witness ==
    \E i \in DOMAIN lead :
        /\ Owned(lead[i]) /\ ProjectOf(lead[i].project_id).name = DemoName
        /\ Last(lead[i].history).type = "advanced"
        /\ lead[i].current_step = "Vente" /\ lead[i].status = "won"

\* C4: a lead created at one of its project's steps is at one of them in
\* every reachable state.
C4_StepInSteps ==
    \A i \in DOMAIN lead :
        (/\ Owned(lead[i])
         /\ lead[i].history[1].to_step \in Range(ProjectOf(lead[i].project_id).steps))
        => lead[i].current_step \in Range(ProjectOf(lead[i].project_id).steps)

\* A lead created at one of its steps that two advances have moved.
C4_Witness ==
    \E i \in DOMAIN lead :
        /\ Owned(lead[i]) /\ Len(lead[i].history) >= 3
        /\ lead[i].history[1].to_step \in Range(ProjectOf(lead[i].project_id).steps)
        /\ Last(lead[i].history).type = "advanced"

\* C5: every advance that completes appends one advanced entry carrying the
\* step before and the step after, and no step removes or changes an entry
\* or appends one otherwise.
C5_HistoryAppendOnly ==
    [][/\ \A i \in DOMAIN lead :
              /\ i \in DOMAIN lead'
              /\ \/ lead'[i].history = lead[i].history
                 \/ /\ \E t \in Tasks :
                          Completes(t) /\ i = LeadIndex(lead, tasks'[t].msg.lead_id)
                    /\ Len(lead'[i].history) = Len(lead[i].history) + 1
                    /\ SubSeq(lead'[i].history, 1, Len(lead[i].history)) = lead[i].history
                    /\ IsAdvanced(Last(lead'[i].history), lead[i].current_step,
                                  lead'[i].current_step)
       /\ \A t \in Tasks : Completes(t) =>
              LET i == LeadIndex(lead, tasks'[t].msg.lead_id)
              IN Len(lead'[i].history) = Len(lead[i].history) + 1]_vars

\* Three advances on one lead, the last one clamped at the last step.
C5_Witness ==
    \E i \in DOMAIN lead :
        /\ Len(lead[i].history) = 4
        /\ \A k \in 2 .. 4 : lead[i].history[k].type = "advanced"
        /\ lead[i].history[4].from_step = lead[i].history[4].to_step

\* C6 as stated: an advance that ends in an error leaves the leads and the
\* observers alone, and an advance on a lead whose project_id is absent,
\* empty or names no stored project ends in an error.
C6_UnresolvedIsError ==
    [][\A t \in Tasks :
          /\ Errs(t) => (lead' = lead /\ active_connections' = active_connections)
          /\ Completes(t) =>
                 LET l == lead[LeadIndex(lead, tasks'[t].msg.lead_id)]
                 IN Owned(l) /\ tasks'[t].key = l.project_id]_vars

\* C7 as stated: an advance against a project with no steps completes and
\* leaves current_step as it was.
C7_EmptyStepsCompletes ==
    [][\A t \in Tasks : (tasks[t].pc = "idle" /\ tasks'[t].pc # "idle") =>
          \A id \in LeadIds, to \in RequestedSteps :
              (/\ AdvanceLead(t, id, to)
               /\ HasLead(lead, id)
               /\ resolve_project(project, lead[LeadIndex(lead, id)]).kind = "doc"
               /\ resolve_project(project, lead[LeadIndex(lead, id)]).doc.steps = <<>>)
              => /\ Completes(t)
                 /\ lead'[LeadIndex(lead, id)].current_step =
                        lead[LeadIndex(lead, id)].current_step]_vars

\* Task t's broadcast has just begun: the snapshot of the observers is taken.
Begins(t) == tasks[t].pc = "idle" /\ tasks'[t].pc = "sending"
\* The websocket the next send of task t's broadcast goes to.
Target(t) == tasks[t].snapshot[tasks[t].idx]

\* C8: the event of an advance on a lead of project P goes to websockets
\* registered under P when the broadcast starts, and the sends of a
\* broadcast in progress stay those.
C8_BroadcastScoped ==
    [][\A t \in Tasks :
          /\ Begins(t) =>
                 LET l == lead[LeadIndex(lead, tasks'[t].msg.lead_id)]
                 IN Owned(l) =>
                        /\ tasks'[t].key = l.project_id
                        /\ \A ws \in Range(tasks'[t].snapshot) :
                               ws \in Range(get_connections(active_connections,
                                                            l.project_id))
          /\ (tasks[t].pc = "sending" /\ tasks'[t].pc = "sending") =>
                 /\ tasks'[t].key = tasks[t].key
                 /\ tasks'[t].snapshot = tasks[t].snapshot
                 /\ tasks'[t].idx = tasks[t].idx
                    \/ tasks'[t].idx = tasks[t].idx + 1]_vars

\* A broadcast for one project has sent to its first observer while another
\* project has an observer that is not among the broadcast's targets.
C8_Witness ==
    \E t \in Tasks, p \in ProjectKeys :
        /\ tasks[t].pc = "sending" /\ tasks[t].idx > 1 /\ tasks[t].key # p
        /\ \E ws \in Range(get_connections(active_connections, p)) :
               ws \notin Range(tasks[t].snapshot)

\* C9 as stated: an observer whose send fails is no longer registered under
\* the project, every observer registered when the broadcast started is sent
\* the event exactly once, the broadcast returns normally, and without
\* observers it changes nothing.
C9_DeadObserverPruned ==
    [][\A t \in Tasks :
          /\ (tasks[t].pc = "sending" /\ BroadcastSend(t, FALSE)) =>
                 Target(t) \notin
                     Range(get_connections(active_connections', tasks[t].key))
          /\ Begins(t) =>
                 \A i, j \in DOMAIN tasks'[t].snapshot :
                     tasks'[t].snapshot[i] = tasks'[t].snapshot[j] => i = j
          /\ (tasks[t].pc = "sending" /\ tasks'[t].pc = "done") =>
                 tasks'[t].code = 200
          /\ (Completes(t) /\ tasks'[t].pc = "done") =>
                 active_connections' = active_connections]_vars

\* C10 as stated: after disconnect(p, o), o is not registered under p.
C10_DisconnectRemoves ==
    [][\A p \in ProjectKeys, ws \in Observers :
          Disconnect(p, ws) =>
              ws \notin Range(get_connections(active_connections', p))]_vars

\* C11: a websocket is registered under a project only once its handshake
\* has completed, a broadcast sends only to websockets whose handshake has
\* completed, and a websocket whose handshake failed is registered nowhere.
C11_RegisteredAfterHandshake ==
    /\ \A p \in DOMAIN active_connections :
           \A ws \in Range(active_connections[p]) :
               handshake[ws].state = "accepted" /\ handshake[ws].project_id = p
    /\ \A t \in Tasks : tasks[t].pc = "sending" =>
           \A ws \in Range(tasks[t].snapshot) : handshake[ws].state = "accepted"
    /\ \A ws \in Observers : handshake[ws].state \in {"accepting", "failed"} =>
           \A p \in DOMAIN active_connections : ws \notin Range(active_connections[p])

\* A broadcast under way for a project under which one websocket is registered
\* and another one's handshake has failed.
C11_Witness ==
    \E t \in Tasks, ws \in Observers :
        /\ tasks[t].pc = "sending" /\ tasks[t].snapshot # <<>>
        /\ handshake[ws].state = "failed"
        /\ handshake[ws].project_id = tasks[t].key

\* The history of the lead of task t's event, in collection coll, holds the
\* advanced entry that the event reports.
EventWritten(coll, msg) ==
    /\ HasLead(coll, msg.lead_id)
    /\ \E e \in Range(coll[LeadIndex(coll, msg.lead_id)].history) :
           IsAdvanced(e, msg.from, msg.to) /\ e.lead_id = msg.lead_id

\* C12: whenever a lead_advanced event is being sent, the history of its
\* lead already holds the advanced entry with the event's from and to, and a
\* call starts sending only in the step in which it has appended that entry.
C12_EventAfterWrite ==
    [][\A t \in Tasks :
          /\ tasks'[t].pc = "sending" => EventWritten(lead', tasks'[t].msg)
          /\ Begins(t) =>
                 LET i == LeadIndex(lead, tasks'[t].msg.lead_id)
                 IN /\ Len(lead'[i].history) = Len(lead[i].history) + 1
                    /\ IsAdvanced(Last(lead'[i].history),
                                  tasks'[t].msg.from, tasks'[t].msg.to)]_vars

\* One event has been sent and the next send is due.
C12_Witness ==
    \E t \in Tasks :
        /\ tasks[t].pc = "sending" /\ tasks[t].idx = 2
        /\ tasks[t].msg.from # tasks[t].msg.to
        /\ EventWritten(lead, tasks[t].msg)

\* What a later find_one with filter filt returns, as the reader sees it.
Reads(store, h, filt) == Value(h, mem_find_one(store, filt))

\* C13 as stated: a mutation the caller makes to a document that find_one
\* returned, to a field or to a list it holds, changes the result of no
\* later find_one.
C13_CopyOnRead ==
    [][(MutateField("status", "changed") \/ MutateNested("history", "e")) =>
          \A filt \in Filters :
              Reads(mem'.store, heap', filt) = Reads(mem.store, heap, filt)]_vars

\* The first document matching filt, and the documents around it.
Located(store, filt) == Min({i \in DOMAIN store : _match_filter(store[i].doc, filt)})
SetApplied(doc, set) == \A k \in DOMAIN set : k \in DOMAIN doc /\ doc[k] = set[k]
PushApplied(before, after, push) ==
    \A k \in DOMAIN push :
        /\ k \in DOMAIN after
        /\ after[k] = Append(IF k \in DOMAIN before THEN before[k] ELSE <<>>, push[k])

\* C14 as stated: an update_one with a $set and a $push leaves the first
\* matching document with both applied or exactly as it was, changes no
\* other document, and changes nothing when no document matches.
C14_UpdateAtomic ==
    [][\A filt \in UpdateFilters, set \in Sets \ {NoFields}, push \in Pushes \ {NoFields} :
          UpdateOne(filt, set, push) =>
              IF mem_find_one(mem.store, filt) = NoDoc
              THEN mem' = mem /\ heap' = heap
              ELSE LET i == Located(mem.store, filt)
                       before == Value(heap, mem.store[i].doc)
                       after == Value(heap', mem'.store[i].doc)
                   IN /\ Len(mem'.store) = Len(mem.store)
                      /\ \A j \in DOMAIN mem.store \ {i} :
                             Value(heap', mem'.store[j].doc) = Value(heap, mem.store[j].doc)
                      /\ \/ after = before
                         \/ SetApplied(after, set) /\ PushApplied(before, after, push)]_vars

\* A document matches when every field of the filter, taken as the explicit
\* missing value where the document lacks it, equals the value given or is
\* one of the values given.
ExpectedMatch(doc, filt) ==
    \A k \in DOMAIN filt :
        LET held == IF k \in DOMAIN doc THEN <<doc[k]>> ELSE <<>>
            wanted == IF filt[k].op = "in" THEN filt[k].vals ELSE {filt[k].val}
        IN IF held = <<>> THEN None \in wanted ELSE held[1] \in wanted
ExpectedDocs(store, filt) ==
    {i \in DOMAIN store : ExpectedMatch(store[i].doc, filt)}

\* C15: find returns exactly the matching documents, each once and in store
\* order; find_one returns one of them, and None exactly when there is none.
C15_FilterMatch ==
    /\ caller.op = "find" =>
           /\ Len(caller.docs) = Cardinality(ExpectedDocs(mem.store, caller.filt))
           /\ \A i \in ExpectedDocs(mem.store, caller.filt) :
                  \E n \in DOMAIN caller.docs : caller.docs[n] = mem.store[i].doc
           /\ \A n \in DOMAIN caller.docs :
                  \E i \in ExpectedDocs(mem.store, caller.filt) :
                      caller.docs[n] = mem.store[i].doc
    /\ caller.op = "find_one" =>
           IF ExpectedDocs(mem.store, caller.filt) = {} THEN caller.doc = NoDoc
           ELSE \E i \in ExpectedDocs(mem.store, caller.filt) :
                    caller.doc = mem.store[i].doc

\* A filter on history that a document without a history matches and
\* another document does not.
C15_Witness ==
    /\ caller.op = "find" /\ "history" \in DOMAIN caller.filt
    /\ \E n \in DOMAIN caller.docs : "history" \notin DOMAIN caller.docs[n]
    /\ Len(caller.docs) < Len(mem.store)

\* C16 as stated: every stored document carries the id insert_one returned
\* for it, is found by a filter on that id, and shares its id with no other
\* document.
C16_IdImmutable ==
    \A i \in DOMAIN mem.store :
        /\ mem.store[i].doc._id = mem.store[i].key
        /\ mem_find_one(mem.store, [_id |-> Eq(mem.store[i].key)]) = mem.store[i].doc
        /\ \A j \in DOMAIN mem.store : mem.store[j].doc._id = mem.store[i].doc._id => j = i

\* C18 as stated: get_documents with a limit returns the first
\* min(limit, n) of the n documents find returns, also for limit 0, and all
\* n with no limit.
C18_LimitPrefix ==
    caller.op = "get_documents" =>
        LET all == mem_find(mem.store, caller.filt)
        IN caller.docs =
               IF caller.limit = <<>> THEN all
               ELSE SubSeq(all, 1, Min({caller.limit[1], Len(all)}))

\* The insert_one calls that have returned: worker and number of the call.
Returns == {<<th, n>> : th \in Threads, n \in 1 .. MaxDocs}
HasReturned(c) == c[2] <= Len(threads[c[1]].issued)
IdOf(c) == threads[c[1]].issued[c[2]]

\* C17 as stated: the ids that concurrent insert_one calls return are
\* pairwise different, and the document of every call stays stored under
\* the id the call returned.
C17_ConcurrentInserts ==
    \A c \in Returns : HasReturned(c) =>
        /\ \A d \in Returns : (HasReturned(d) /\ d # c) => IdOf(d) # IdOf(c)
        /\ HasKey(mem.store, IdOf(c))
        /\ mem.store[KeyIndex(mem.store, IdOf(c))].doc =
               [owner |-> c[1], call |-> c[2], _id |-> IdOf(c)]

\* C19 as stated: with the in-memory backend an advance request on the id of
\* a stored lead whose project is stored is accepted and advances the lead.
C19_MemoryIdsAccepted ==
    [][\A t \in Tasks : (tasks[t].pc = "idle" /\ tasks'[t].pc # "idle") =>
          \A id \in LeadIds, to \in RequestedSteps :
              (/\ backend = "memory"
               /\ AdvanceLead(t, id, to)
               /\ HasLead(lead, id)
               /\ Owned(lead[LeadIndex(lead, id)]))
              => /\ Completes(t)
                 /\ Len(lead'[LeadIndex(lead, id)].history) =
                        Len(lead[LeadIndex(lead, id)].history) + 1]_vars

\* C20 as stated: at every point of a script, every find and find_one on
\* the in-memory backend returns the documents, with the field values, that
\* the same call returns on the persistent backend.
C20_BackendsAgree ==
    \A filt \in ScriptFilters :
        LET found == mem_find(mem.store, filt)
        IN /\ [n \in DOMAIN found |-> Value(heap, found[n])] = db_find(persistent, filt)
           /\ (mem_find_one(mem.store, filt) = NoDoc) = ~Found(persistent, filt)

\* The update_one of request t runs in this step.
Writes(t) == tasks[t].pc = "read" /\ tasks'[t].pc \in {"sending", "done"}

\* C21: however the database calls of concurrent advance requests on one
\* lead interleave, every update appends exactly one advanced entry, that of
\* its request, to the history as it stands (so the history holds one entry
\* per update so far, in the order of the updates), and leaves the lead at
\* the step and status that request computed; no other step changes a lead,
\* so the lead ends as the last update wrote it.
C21_LastWriteWins ==
    /\ [](\A i \in DOMAIN lead :
            /\ Len(lead[i].history) = 1 + clock
            /\ \A n \in 1 .. clock :
                   /\ lead[i].history[n + 1].type = "advanced"
                   /\ lead[i].history[n + 1].created_at = n)
    /\ [][IF \E t \in Tasks : Writes(t)
          THEN \A t \in Tasks : Writes(t) =>
                 LET plan == tasks[t]
                     i == LeadIndex(lead, plan.lead_id)
                 IN /\ lead'[i].history =
                          Append(lead[i].history,
                                 AdvancedEntry(plan.key, plan.lead_id, plan.from,
                                               plan.step, clock + 1))
                    /\ lead'[i].current_step = plan.step
                    /\ lead'[i].status = plan.status
                    /\ lead'[i].updated_at = clock + 1
                    /\ \A j \in DOMAIN lead : j # i => lead'[j] = lead[j]
          ELSE lead' = lead]_vars

\* Two requests read the lead at the same step and both wrote: the second
\* entry does not start where the first one ended, and the lead is where the
\* second update put it.
C21_Witness ==
    \E i \in DOMAIN lead :
        LET h == lead[i].history IN
        /\ Len(h) >= 3
        /\ h[3].from_step # h[2].to_step
        /\ h[3].to_step # h[2].to_step
        /\ lead[i].current_step = h[3].to_step
        /\ \E t \in Tasks : tasks[t].pc = "done" /\ tasks[t].code = 200

\* C22 as stated: the lead an advance call returns is at the step the call
\* wrote and announced as "to", and its history ends with the advanced entry
\* of this call, whatever other advance requests ran during its broadcast.
C22_ReturnsOwnWrite ==
    \A t \in Tasks :
        tasks[t].pc = "done" /\ tasks[t].code = 200 =>
            /\ tasks[t].body.current_step = tasks[t].msg.to
            /\ IsAdvanced(Last(tasks[t].body.history), tasks[t].msg.from, tasks[t].msg.to)

\* The projects named "Leadflow Demo", and the leads seeded for them.
DemoProjects == Matches(project, [name |-> Eq(DemoName)])
DemoLeads ==
    {i \in DOMAIN lead :
        \E j \in DemoProjects : Get(lead[i], "project_id") = str(project[j]._id)}

\* C23 as stated: whatever demo-bootstrap requests have run, one after the
\* other or at the same time, the store holds at most one project named
\* "Leadflow Demo", and once it holds one, the four users and the sample
\* leads exist exactly once.
C23_SeededOnce ==
    /\ Cardinality(DemoProjects) <= 1
    /\ DemoProjects # {} =>
          /\ Len(user) = Len(DemoUsers)
          /\ Cardinality(DemoLeads) = NSeed
====
